---------------------------- MODULE Spec2Model ----------------------------
(***************************************************************************)
(* A model of multiverse9core: the bounded retry helper (with_pullback),   *)
(* the worker pool (pooling.rs), the request handlers create, remove and   *)
(* aggregate (api.rs), the connection handler (protocol.rs), the sync pass *)
(* over the peers (lib.rs), the lookup tables and their build-time check   *)
(* (api.rs), Node::start (node.rs), buf_extract_targets on its own and the *)
(* length-prefixed framing of lib.rs.                                      *)
(* Bytes are integers 0..255, byte strings are sequences of bytes.         *)
(***************************************************************************)
EXTENDS Integers, Sequences, FiniteSets, TLC

VARIABLES
    \* with_pullback (lib.rs)
    rpc,         \* position inside with_pullback
    iterations,  \* the local `iterations`
    calls,       \* number of invocations of `callback`
    fallbacks,   \* number of invocations of `fallback`
    lastResult,  \* result of the latest `callback()`: "none", "Ok", "Err"
    sleeps,      \* the durations (seconds) passed to thread::sleep, in order
    \* Pool (pooling.rs)
    tx,          \* Pool.tx is Some(sender)
    queue,       \* the jobs buffered in the mpsc channel
    lock,        \* holder of the Mutex around the receiver, 0 when free
    wpc,         \* each worker thread's position
    wjob,        \* the job a worker is running, 0 when none
    runs,        \* how many times each job's closure was invoked
    jstat,       \* each job: "new", "sent", "done", "rejected"
    dropPc,      \* Drop for Pool: "live", "join", "dropped"
    joinIdx,     \* index of the worker Drop is joining
    atDrop,      \* what was queued / running when Drop began
    late,        \* the jobs whose submission started after Drop began
    \* handlers (api.rs)
    store,       \* the key-value store of the local node
    issued,      \* the ULIDs already generated
    created,     \* key -> payload of every create not followed by a remove
    removed,     \* the keys a create stored and a later remove deleted
    req,         \* the latest request given to a handler
    res,         \* what the handler returned
    effects,     \* the storage and SDK calls the latest handler issued, in order
    prevStore,   \* the store before the latest request
    hpc,         \* the connection handler: "read", "handled", "written"
    response,    \* the bytes written to the stream for the latest request
    \* one connection served by Handler::tcp (protocol.rs)
    cpc,         \* the handler thread: "serving", "closed", "dead"
    log,         \* every message read on the connection, with its outcome
    \* Node::sync (lib.rs)
    syncPc,      \* the sync thread: "start", "peer", "blocked", "panicked",
                 \* "skipped", "done"
    mv_nodes,    \* Settings.mv_nodes, the configured peers
    peerIdx,     \* index of the peer the `for node in ..` loop is at
    failing,     \* the local `failing`
    okPeers,     \* the peers for which some callback() returned Ok(())
    hs,          \* the latest callback(): what was sent, received, returned
    \* the lookup tables and their compile-time check (api.rs)
    handlerKeys, \* the keys of the handler table of the program being built
    codeKeys,    \* the keys of its response-code table
    build,       \* "none", "ok" (compiled), "rejected" (the check failed)
    lookup,      \* the latest dispatch of a built program: "none", "found",
                 \* "panic"
    \* Node::start (node.rs)
    npc,         \* the thread in start(): "bind", "spawn", "accept", "failed",
                 \* "stopped"
    bound,       \* the result of TcpListener::bind: "none", "ok", "err"
    acceptErr,   \* `stream?` or `stream.peer_addr()?` met an Err
    syncSpawned, \* the sync thread was spawned
    conns,       \* the handler threads spawned, in order of acceptance
    \* buf_extract_targets applied to one buffer (api.rs)
    xbuf,        \* the buffer, <<-1>> before the call
    xout,        \* the targets returned
    \* one message framed by write_tcp_stream and read back (lib.rs)
    fpc,         \* "write", "read", "done"
    fpayload,    \* the payload given to write_tcp_stream
    fstream,     \* the bytes it put on the stream
    fopen,       \* the writer left the stream open
    fread        \* what read_tcp_stream returned

retryVars == <<rpc, iterations, calls, fallbacks, lastResult, sleeps>>
poolVars  == <<tx, queue, lock, wpc, wjob, runs, jstat, dropPc, joinIdx, atDrop,
               late>>
apiVars   == <<store, issued, created, removed, req, res, effects, prevStore,
               hpc, response>>
connVars  == <<cpc, log>>
syncVars  == <<syncPc, mv_nodes, peerIdx, failing, okPeers, hs>>
buildVars == <<handlerKeys, codeKeys, build, lookup>>
nodeVars  == <<npc, bound, acceptErr, syncSpawned, conns>>
extractVars == <<xbuf, xout>>
frameVars == <<fpc, fpayload, fstream, fopen, fread>>
auxVars   == <<buildVars, nodeVars, extractVars, frameVars>>
vars      == <<retryVars, poolVars, apiVars, connVars, syncVars, auxVars>>

-----------------------------------------------------------------------------
(* with_pullback::<RETRIES, SLEEP, T>(callback, fallback)                  *)

RETRIES == 20
SLEEP == 2

LoopGuardOffByOne(i) == i <= RETRIES

\* `while iterations < RETRIES`
LoopGuard(i) == i < RETRIES

duration_from_one(i) == (i + 1) * SLEEP

\* `Duration::from_secs((iterations * SLEEP) as u64)`
duration(i) == i * SLEEP

RetryInit ==
    /\ rpc = "loop"
    /\ iterations = 0
    /\ calls = 0
    /\ fallbacks = 0
    /\ lastResult = "none"
    /\ sleeps = <<>>

\* the loop test; leaving the loop falls through to the fallback call
LoopTest ==
    /\ rpc = "loop"
    /\ rpc' = IF LoopGuard(iterations) THEN "sleep" ELSE "fallback"
    /\ UNCHANGED <<iterations, calls, fallbacks, lastResult, sleeps>>
    /\ UNCHANGED <<poolVars, apiVars, connVars, syncVars, auxVars>>

Sleep ==
    /\ rpc = "sleep"
    /\ sleeps' = Append(sleeps, duration(iterations))
    /\ rpc' = "call"
    /\ UNCHANGED <<iterations, calls, fallbacks, lastResult>>
    /\ UNCHANGED <<poolVars, apiVars, connVars, syncVars, auxVars>>

\* `if let Err(e) = callback() { iterations += 1; continue; }`
on_err ==
    /\ rpc = "call"
    /\ calls' = calls + 1
    /\ lastResult' = "Err"
    /\ iterations' = iterations + 1
    /\ rpc' = "loop"
    /\ UNCHANGED <<fallbacks, sleeps>>

\* callback() returned Ok: `break`, which leaves the loop for line 313
on_ok ==
    /\ rpc = "call"
    /\ calls' = calls + 1
    /\ lastResult' = "Ok"
    /\ rpc' = "fallback"
    /\ UNCHANGED <<iterations, fallbacks, sleeps>>

\* `fallback();` is the statement after the loop, reached on every path
after_loop ==
    /\ rpc = "fallback"
    /\ fallbacks' = fallbacks + 1
    /\ rpc' = "done"
    /\ UNCHANGED <<iterations, calls, lastResult, sleeps>>

\* with_pullback called with a callback and a fallback that touch nothing
\* else
CallbackErr == on_err /\ UNCHANGED <<poolVars, apiVars, connVars, syncVars, auxVars>>

CallbackOk == on_ok /\ UNCHANGED <<poolVars, apiVars, connVars, syncVars, auxVars>>

Fallback == after_loop /\ UNCHANGED <<poolVars, apiVars, connVars, syncVars, auxVars>>

NextRetry == LoopTest \/ Sleep \/ CallbackErr \/ CallbackOk \/ Fallback

-----------------------------------------------------------------------------
(* Pool, Worker (pooling.rs)                                               *)

NumWorkers == 2
MaxJobs == 3

Workers == 1..NumWorkers
Jobs == 1..MaxJobs

Range(s) == {s[i] : i \in DOMAIN s}

\* state after Pool::new(NumWorkers): every worker thread is at the top of
\* its loop, the channel is empty
PoolInit ==
    /\ tx = TRUE
    /\ queue = <<>>
    /\ lock = 0
    /\ wpc = [w \in Workers |-> "lock"]
    /\ wjob = [w \in Workers |-> 0]
    /\ runs = [j \in Jobs |-> 0]
    /\ jstat = [j \in Jobs |-> "new"]
    /\ dropPc = "live"
    /\ joinIdx = 1
    /\ atDrop = [queued |-> {}, running |-> {}]
    /\ late = {}

SenderAlways(t) == TRUE

\* `self.tx.as_ref().unwrap()`: panics when Drop has taken the sender
SenderPresent(t) == t

EnqueueTwice(q, j) == Append(Append(q, j), j)

\* `.send(job)` on the unbounded channel
Enqueue(q, j) == Append(q, j)

\* the jobs are submitted in the order 1, 2, ...
NextJob == CHOOSE j \in Jobs : jstat[j] = "new" /\ \A k \in Jobs : k < j => jstat[k] # "new"

\* Pool::execute(f)
execute ==
    /\ \E j \in Jobs : jstat[j] = "new"
    /\ LET j == NextJob IN
        /\ late' = IF dropPc # "live" THEN late \cup {j} ELSE late
        /\ IF SenderPresent(tx)
             THEN /\ queue' = Enqueue(queue, j)
                  /\ jstat' = [jstat EXCEPT ![j] = "sent"]
             ELSE /\ queue' = queue
                  /\ jstat' = [jstat EXCEPT ![j] = "rejected"]
    /\ UNCHANGED <<tx, lock, wpc, wjob, runs, dropPc, joinIdx, atDrop>>
    /\ UNCHANGED <<retryVars, apiVars, connVars, syncVars, auxVars>>

\* `rx.lock().unwrap()`: the worker acquires the mutex of the receiver
WorkerLock(w) ==
    /\ wpc[w] = "lock"
    /\ lock = 0
    /\ lock' = w
    /\ wpc' = [wpc EXCEPT ![w] = "recv"]
    /\ UNCHANGED <<tx, queue, wjob, runs, jstat, dropPc, joinIdx, atDrop, late>>
    /\ UNCHANGED <<retryVars, apiVars, connVars, syncVars, auxVars>>

\* mpsc::Receiver::recv: a buffered job is returned even after the sender is
\* gone; Err only when the channel is empty and disconnected
RecvOutcome(q, t) ==
    IF q # <<>> THEN "Ok" ELSE IF ~t THEN "Err" ELSE "Block"

guard_held_in_job(w) == w

\* the holder of the mutex once `let rx = rx.lock().unwrap().recv();` has
\* ended: the MutexGuard is a temporary of that statement, so nobody
guard_after_let(w) == 0

\* `.recv()` returns Ok(job): the guard is dropped at the end of the `let`
\* statement, then `job()` is invoked
WorkerRecvJob(w) ==
    /\ wpc[w] = "recv"
    /\ lock = w
    /\ RecvOutcome(queue, tx) = "Ok"
    /\ LET job == Head(queue) IN
        /\ wjob' = [wjob EXCEPT ![w] = job]
        /\ runs' = [runs EXCEPT ![job] = @ + 1]
    /\ queue' = Tail(queue)
    /\ lock' = guard_after_let(w)
    /\ wpc' = [wpc EXCEPT ![w] = "job"]
    /\ UNCHANGED <<tx, jstat, dropPc, joinIdx, atDrop, late>>
    /\ UNCHANGED <<retryVars, apiVars, connVars, syncVars, auxVars>>

\* `.recv()` returns Err: `break`, the thread ends
WorkerRecvErr(w) ==
    /\ wpc[w] = "recv"
    /\ lock = w
    /\ RecvOutcome(queue, tx) = "Err"
    /\ lock' = 0
    /\ wpc' = [wpc EXCEPT ![w] = "exit"]
    /\ UNCHANGED <<tx, queue, wjob, runs, jstat, dropPc, joinIdx, atDrop, late>>
    /\ UNCHANGED <<retryVars, apiVars, connVars, syncVars, auxVars>>

\* the job's closure returns; the worker loops
JobFinish(w) ==
    /\ wpc[w] = "job"
    /\ jstat' = [jstat EXCEPT ![wjob[w]] = "done"]
    /\ wjob' = [wjob EXCEPT ![w] = 0]
    /\ wpc' = [wpc EXCEPT ![w] = "lock"]
    /\ UNCHANGED <<tx, queue, lock, runs, dropPc, joinIdx, atDrop, late>>
    /\ UNCHANGED <<retryVars, apiVars, connVars, syncVars, auxVars>>

\* Drop for Pool: `drop(self.tx.take())`
DropBegin ==
    /\ dropPc = "live"
    /\ tx' = FALSE
    /\ dropPc' = "join"
    /\ joinIdx' = 1
    /\ atDrop' = [queued |-> Range(queue),
                  running |-> {wjob[w] : w \in {v \in Workers : wpc[v] = "job"}}]
    /\ UNCHANGED <<queue, lock, wpc, wjob, runs, jstat, late>>
    /\ UNCHANGED <<retryVars, apiVars, connVars, syncVars, auxVars>>

JoinReturnsAtOnce(w) == TRUE

\* `thread.join()` returns once the worker's thread has ended
JoinReturns(w) == wpc[w] = "exit"

\* Drop for Pool: one turn of `for worker in &mut self.workers`
DropJoin ==
    /\ dropPc = "join"
    /\ joinIdx <= NumWorkers
    /\ JoinReturns(joinIdx)
    /\ joinIdx' = joinIdx + 1
    /\ UNCHANGED <<tx, queue, lock, wpc, wjob, runs, jstat, dropPc, atDrop, late>>
    /\ UNCHANGED <<retryVars, apiVars, connVars, syncVars, auxVars>>

\* Drop for Pool returns
DropEnd ==
    /\ dropPc = "join"
    /\ joinIdx > NumWorkers
    /\ dropPc' = "dropped"
    /\ UNCHANGED <<tx, queue, lock, wpc, wjob, runs, jstat, joinIdx, atDrop, late>>
    /\ UNCHANGED <<retryVars, apiVars, connVars, syncVars, auxVars>>

NextPool ==
    \/ execute
    \/ \E w \in Workers : WorkerLock(w)
    \/ \E w \in Workers : WorkerRecvJob(w)
    \/ \E w \in Workers : WorkerRecvErr(w)
    \/ \E w \in Workers : JobFinish(w)
    \/ DropBegin
    \/ DropJoin
    \/ DropEnd

-----------------------------------------------------------------------------
(* Byte strings                                                            *)

NUL == 0
AT == 64
COLON == 58
ULID_LEN == 26

\* b"Unknown key"
UNKNOWN_KEY == <<85, 110, 107, 110, 111, 119, 110, 32, 107, 101, 121>>

\* U+FFFD in UTF-8
REPLACEMENT == <<239, 191, 189>>

RECURSIVE lossy_from(_, _, _)
lossy_from(bytes, i, acc) ==
    IF i > Len(bytes) THEN acc
    ELSE lossy_from(bytes, i + 1,
                    acc \o (IF bytes[i] < 128 THEN <<bytes[i]>> ELSE REPLACEMENT))

\* String::from_utf8_lossy(..).to_string(), for strings of ASCII bytes and
\* the byte 0xFF: 0xFF never belongs to a valid UTF-8 sequence, so each one
\* is replaced by U+FFFD
from_utf8_lossy(bytes) == lossy_from(bytes, 1, <<>>)

RECURSIVE split_from(_, _, _, _, _)
split_from(s, sep, i, parts, current) ==
    IF i > Len(s) THEN Append(parts, current)
    ELSE IF s[i] = sep
         THEN split_from(s, sep, i + 1, Append(parts, current), <<>>)
         ELSE split_from(s, sep, i + 1, parts, Append(current, s[i]))

\* slice::split(|c| *c == sep).collect(): always at least one part
split(s, sep) == split_from(s, sep, 1, <<>>, <<>>)

buf_split_targets(buffer) == split(buffer, NUL)

RECURSIVE extract_from(_, _, _, _)
extract_from(buffer, i, targets, current_target) ==
    IF i > Len(buffer)
    THEN IF current_target # <<>> THEN Append(targets, current_target) ELSE targets
    ELSE IF buffer[i] = NUL
         THEN extract_from(buffer, i + 1, Append(targets, current_target), <<>>)
         ELSE extract_from(buffer, i + 1, targets, Append(current_target, buffer[i]))

\* internal::buf_extract_targets
buf_extract_targets(buffer) == extract_from(buffer, 1, <<>>, <<>>)

-----------------------------------------------------------------------------
(* Keys, payloads and requests the model draws from                        *)

MaxTargets == 2

\* Ulid::new().to_string(): 26 characters of Crockford base 32; the model
\* has one ULID per character of KeyChars ("A", "B")
KeyChars == {65, 66}
Ulid(c) == [i \in 1..ULID_LEN |-> c]
KeySpace == {Ulid(c) : c \in KeyChars}

\* the payloads given to create: "", "A", "h" NUL ":"
CreatePayloads == {<<>>, <<65>>, <<104, NUL, COLON>>}

\* the address of a node that is up but whose storage fails
FailingAddr == <<102>>

\* what the node at RemoteAddr stores
RemoteAddr == <<114>>
RemoteStore == [k \in {Ulid(66)} |-> <<104, 105>>]

\* the targets of remove and aggregate requests: the ULIDs, a short key,
\* the empty target, a key with an address, and 23 letters followed by the
\* byte 0xFF
TargetPool ==
    KeySpace \cup
    { <<65, 66>>,
      <<>>,
      Ulid(66) \o <<AT>> \o RemoteAddr,
      [i \in 1..23 |-> 65] \o <<255>> }

TargetLists == UNION {[1..n -> TargetPool] : n \in 0..MaxTargets}

RECURSIVE join_from(_, _, _)
join_from(list, i, acc) ==
    IF i > Len(list) THEN acc
    ELSE join_from(list, i + 1,
                   (IF i = 1 THEN acc ELSE acc \o <<NUL>>) \o list[i])

\* the request payload a client builds for a list of targets: the targets
\* joined by NUL, with or without a trailing NUL
Payload(list, trailing) ==
    join_from(list, 1, <<>>) \o (IF trailing THEN <<NUL>> ELSE <<>>)

-----------------------------------------------------------------------------
(* Handlers (api.rs), the SDK client (sdk.rs)                              *)

Ok(out) == [tag |-> "Ok", err |-> "", out |-> out]
Err(e) == [tag |-> "Err", err |-> e, out |-> <<>>]
Panic == [tag |-> "Panic", err |-> "", out |-> <<>>]

\* storage.set(key, value)
set(st, key, value) ==
    [k \in DOMAIN st \cup {key} |-> IF k = key THEN value ELSE st[k]]

delFirstOnly(st, keys) ==
    [k \in DOMAIN st \ {keys[1]} |-> st[k]]

\* storage.del(keys): one batched delete; absent keys are ignored
del(st, keys) ==
    [k \in DOMAIN st \ Range(keys) |-> st[k]]

get_or_empty(st, key) == IF key \in DOMAIN st THEN <<st[key]>> ELSE <<<<>>>>

\* storage.get(key)
get(st, key) == IF key \in DOMAIN st THEN <<st[key]>> ELSE <<>>

never_empty(buffer) == FALSE

\* `p.buffer.is_empty()`
is_empty(buffer) == buffer = <<>>

\* fn create(p: Packet): `id` is the ULID that Ulid::new() yields,
\* `redisOk` whether the storage call succeeds
create(st, buffer, id, redisOk) ==
    IF is_empty(buffer)
    THEN [res |-> Err("EmptyBuffer"), store |-> st, effects |-> <<>>]
    ELSE IF ~redisOk
    THEN [res |-> Err("Redis"), store |-> st,
          effects |-> <<[op |-> "set", arg |-> <<id>>, ok |-> FALSE]>>]
    ELSE [res |-> Ok(id), store |-> set(st, id, buffer),
          effects |-> <<[op |-> "set", arg |-> <<id>>, ok |-> TRUE]>>]

\* fn remove(p: Packet)
remove(st, buffer, redisOk) ==
    LET keys == buf_extract_targets(buffer) IN
    IF keys = <<>>
    THEN [res |-> Err("EmptyKeys"), store |-> st, effects |-> <<>>]
    ELSE IF ~redisOk
    THEN [res |-> Err("Redis"), store |-> st,
          effects |-> <<[op |-> "del", arg |-> keys, ok |-> FALSE]>>]
    ELSE [res |-> Ok(<<>>), store |-> del(st, keys),
          effects |-> <<[op |-> "del", arg |-> keys, ok |-> TRUE]>>]

entry_unterminated(key, buffer) == key \o <<COLON>> \o buffer

\* the bytes the local branch appends: key, ':', value, NUL
entry(key, buffer) == key \o <<COLON>> \o buffer \o <<NUL>>

\* `key.len() != ulid::ULID_LEN` is the negation of this
key_len_ok(key) == Len(key) = ULID_LEN

\* the (success, failure) codes of CODE_LOOKUP_TABLE; all three handlers
\* have (0, 1)
CODE_LOOKUP_TABLE(code) == <<0, 1>>

tcp_response_bare(code, r) ==
    IF r.tag = "Ok" THEN r.out ELSE <<1, 1, 0>>

tcp_response_ok_arm(code, r) == <<CODE_LOOKUP_TABLE(code)[1]>> \o r.out

\* Handler::tcp, the response written for a handler's result
tcp_response(code, r) ==
    LET codes == CODE_LOOKUP_TABLE(code) IN
    IF r.tag = "Ok" THEN <<codes[1]>> \o r.out
    ELSE <<codes[2], codes[2], 0>>

prepend(aggregated, bytes) == bytes \o aggregated

\* `aggregated.extend(bytes)`
extend(aggregated, bytes) == aggregated \o bytes

never_err(r) == FALSE

is_err_or_failure_status(r) == r.tag = "Err" \/ (r.out # <<>> /\ r.out[1] # 0)

\* the `?` behind a call: the error branch is taken on Err
is_err(r) == r.tag = "Err"

RECURSIVE aggregate(_, _, _, _)

\* sdk::aggregate(addr, key): one request [0x03] ++ key ++ [0] to the node
\* at addr, answered by that node's connection handler; `reachable` is
\* whether connect, write and read succeed
sdk_aggregate(addr, key, reachable, remoteStore) ==
    IF ~reachable \/ addr \notin {RemoteAddr, FailingAddr} THEN Err("Io")
    ELSE LET buffer == <<3>> \o key \o <<NUL>>
             r == aggregate(remoteStore, Tail(buffer), addr # FailingAddr, FALSE)
         IN Ok(tcp_response(buffer[1], r.res))

RECURSIVE aggregate_from(_, _, _, _, _, _, _)
\* the `for target in targets` loop of aggregate, from target i on
aggregate_from(st, targets, i, aggregated, effs, redisOk, reachable) ==
    IF i > Len(targets) THEN [res |-> Ok(aggregated), store |-> st, effects |-> effs]
    ELSE IF targets[i] = <<>> THEN [res |-> Panic, store |-> st, effects |-> effs]
    ELSE
      LET target == split(targets[i], AT)
          key == from_utf8_lossy(target[1])
      IN
      IF ~key_len_ok(key)
      THEN [res |-> Err("InvalidKey"), store |-> st, effects |-> effs]
      ELSE IF Len(target) >= 2
      THEN LET addr == from_utf8_lossy(target[2])
               reply == sdk_aggregate(addr, key, reachable, RemoteStore)
               call == [op |-> "sdk", arg |-> <<key, addr>>, ok |-> reply.tag = "Ok"]
           IN IF is_err(reply)
              THEN [res |-> Err("Sdk"), store |-> st,
                    effects |-> Append(effs, call)]
              ELSE aggregate_from(st, targets, i + 1,
                                  extend(aggregated, reply.out),
                                  Append(effs, call), redisOk, reachable)
      ELSE IF ~redisOk
      THEN [res |-> Err("Redis"), store |-> st,
            effects |-> Append(effs, [op |-> "get", arg |-> <<key>>, ok |-> FALSE])]
      ELSE LET found == get(st, key)
               buffer == IF found = <<>> THEN UNKNOWN_KEY ELSE found[1]
           IN aggregate_from(st, targets, i + 1,
                             extend(aggregated, entry(key, buffer)),
                             Append(effs, [op |-> "get", arg |-> <<key>>, ok |-> TRUE]),
                             redisOk, reachable)

\* fn aggregate(p: Packet)
aggregate(st, buffer, redisOk, reachable) ==
    LET targets == buf_extract_targets(buffer) IN
    IF targets = <<>>
    THEN [res |-> Err("EmptyKeys"), store |-> st, effects |-> <<>>]
    ELSE aggregate_from(st, targets, 1, <<>>, <<>>, redisOk, reachable)

-----------------------------------------------------------------------------
(* The connection handler: one request is read and handled, its response  *)
(* is written, and the loop returns to the read                            *)

EmptyStore == [k \in {} |-> <<>>]

NoRequest == [op |-> "none", list |-> <<>>, payload |-> <<>>,
              redisOk |-> TRUE, reachable |-> TRUE]

\* the command codes of HANDLER_LOOKUP_TABLE
CodeOf(op) == CASE op = "create" -> 1 [] op = "remove" -> 2 [] op = "aggregate" -> 3

ApiInit ==
    /\ store = EmptyStore
    /\ issued = {}
    /\ created = EmptyStore
    /\ removed = {}
    /\ req = NoRequest
    /\ res = Ok(<<>>)
    /\ effects = <<>>
    /\ prevStore = EmptyStore
    /\ hpc = "read"
    /\ response = <<>>

\* a create request; Ulid::new() is reached only with a non-empty buffer and
\* yields a ULID never generated before
Create ==
    /\ hpc = "read"
    /\ hpc' = "handled"
    /\ UNCHANGED response
    /\ \E P \in CreatePayloads, ok \in BOOLEAN :
      \E id \in (IF P = <<>> THEN {Ulid(65)} ELSE KeySpace \ issued) :
        LET r == create(store, P, id, ok) IN
        /\ req' = [op |-> "create", list |-> <<>>, payload |-> P,
                   redisOk |-> ok, reachable |-> TRUE]
        /\ res' = r.res
        /\ effects' = r.effects
        /\ prevStore' = store
        /\ store' = r.store
        /\ issued' = IF P = <<>> THEN issued ELSE issued \cup {id}
        /\ created' = IF r.res.tag = "Ok" THEN set(created, r.res.out, P) ELSE created
        /\ UNCHANGED removed
        /\ UNCHANGED <<retryVars, poolVars, connVars, syncVars, auxVars>>

\* a remove request for a list of keys
Remove ==
    /\ hpc = "read"
    /\ hpc' = "handled"
    /\ UNCHANGED response
    /\ \E list \in TargetLists, trailing \in BOOLEAN, ok \in BOOLEAN :
        LET buffer == Payload(list, trailing)
            r == remove(store, buffer, ok)
        IN
        /\ req' = [op |-> "remove", list |-> list, payload |-> buffer,
                   redisOk |-> ok, reachable |-> TRUE]
        /\ res' = r.res
        /\ effects' = r.effects
        /\ prevStore' = store
        /\ store' = r.store
        /\ created' = [k \in DOMAIN created \ Range(list) |-> created[k]]
        /\ removed' = IF r.res.tag = "Ok"
                      THEN removed \cup (DOMAIN created \cap Range(list))
                      ELSE removed
        /\ UNCHANGED issued
        /\ UNCHANGED <<retryVars, poolVars, connVars, syncVars, auxVars>>

\* an aggregate request for a list of targets
Aggregate ==
    /\ hpc = "read"
    /\ hpc' = "handled"
    /\ UNCHANGED response
    /\ \E list \in TargetLists, trailing \in BOOLEAN, ok \in BOOLEAN,
          reachable \in BOOLEAN :
        LET buffer == Payload(list, trailing)
            r == aggregate(store, buffer, ok, reachable)
        IN
        /\ req' = [op |-> "aggregate", list |-> list, payload |-> buffer,
                   redisOk |-> ok, reachable |-> reachable]
        /\ res' = r.res
        /\ effects' = r.effects
        /\ prevStore' = store
        /\ store' = r.store
        /\ UNCHANGED <<issued, created, removed>>
        /\ UNCHANGED <<retryVars, poolVars, connVars, syncVars, auxVars>>

\* Handler::tcp writes the response of the handler that returned
Reply ==
    /\ hpc = "handled"
    /\ res.tag # "Panic"
    /\ response' = tcp_response(CodeOf(req.op), res)
    /\ hpc' = "written"
    /\ UNCHANGED <<store, issued, created, removed, req, res, effects, prevStore>>
    /\ UNCHANGED <<retryVars, poolVars, connVars, syncVars, auxVars>>

\* the loop of Handler::tcp goes back to the read; the locals of the
\* iteration are dropped
Loop ==
    /\ hpc = "written"
    /\ hpc' = "read"
    /\ req' = NoRequest
    /\ res' = Ok(<<>>)
    /\ effects' = <<>>
    /\ response' = <<>>
    /\ prevStore' = store
    /\ UNCHANGED <<store, issued, created, removed>>
    /\ UNCHANGED <<retryVars, poolVars, connVars, syncVars, auxVars>>

\* a handler panicked: its thread unwinds without writing a response; the
\* store lives on and the next request is read on another connection
Unwind ==
    /\ hpc = "handled"
    /\ res.tag = "Panic"
    /\ hpc' = "read"
    /\ req' = NoRequest
    /\ res' = Ok(<<>>)
    /\ effects' = <<>>
    /\ response' = <<>>
    /\ prevStore' = store
    /\ UNCHANGED <<store, issued, created, removed>>
    /\ UNCHANGED <<retryVars, poolVars, connVars, syncVars, auxVars>>

NextApi == Create \/ Remove \/ Aggregate \/ Reply \/ Loop \/ Unwind

-----------------------------------------------------------------------------
(* Handler::tcp (protocol.rs): one connection, message by message          *)

MaxRequests == 2

\* the keys of HANDLER_LOOKUP_TABLE
HANDLER_LOOKUP_TABLE == {1, 2, 3}

unknown_command_echo(buffer) == <<1, 1>> \o buffer

\* fn unknown_command(p: Packet): `Tcp::write(p.stream, &[1, 1])`
unknown_command(buffer) == <<1, 1>>

\* `handle(packet)`, handle being the entry of HANDLER_LOOKUP_TABLE for code
handle(code, st, buffer, id, redisOk, reachable) ==
    CASE code = 1 -> create(st, buffer, id, redisOk)
      [] code = 2 -> remove(st, buffer, redisOk)
      [] code = 3 -> aggregate(st, buffer, redisOk, reachable)

on_empty_replies(st) ==
    [tag |-> "Ignored", out |-> <<>>, response |-> <<1, 1>>, store |-> st,
     effects |-> <<>>]

\* `if buffer.is_empty() { continue; }`
on_empty(st) ==
    [tag |-> "Ignored", out |-> <<>>, response |-> <<>>, store |-> st,
     effects |-> <<>>]

\* one iteration of the loop of Handler::tcp, `message` being what
\* Tcp::read returned; `out` is what the handler returned, `response` what
\* is written to the stream
tcp(st, message, id, redisOk, reachable) ==
    IF message = <<>>
    THEN on_empty(st)
    ELSE
      LET code == message[1]
          buffer == Tail(message)
      IN
      IF code \in HANDLER_LOOKUP_TABLE
      THEN LET r == handle(code, st, buffer, id, redisOk, reachable) IN
           [tag |-> r.res.tag, out |-> r.res.out,
            response |-> IF r.res.tag = "Panic" THEN <<>>
                         ELSE tcp_response(code, r.res),
            store |-> r.store, effects |-> r.effects]
      ELSE [tag |-> "Unknown", out |-> <<>>,
            response |-> unknown_command(buffer),
            store |-> st, effects |-> <<>>]

\* command codes with and without a handler; 8 is lib.rs's PROTO_SYNC_REQ
ConnCodes == {0, 1, 2, 3, 4, 8}

ConnPayloads ==
    {<<>>, <<NUL>>, <<65>>, Ulid(65), Ulid(65) \o <<NUL, NUL>>,
     Ulid(66) \o <<AT>> \o RemoteAddr, Ulid(66) \o <<AT>> \o FailingAddr}

\* what a client may send: nothing, or a command code and a payload
Messages == {<<>>} \cup {<<c>> \o P : c \in ConnCodes, P \in ConnPayloads}

ConnInit ==
    /\ cpc = "serving"
    /\ log = <<>>

\* the handler reads one message and handles it; a panic of the handler
\* unwinds the thread that runs Handler::tcp
Serve ==
    /\ cpc = "serving"
    /\ Len(log) < MaxRequests
    /\ \E message \in Messages, ok \in BOOLEAN, reachable \in BOOLEAN :
        LET creates == Len(message) > 1 /\ message[1] = 1 IN
        \E id \in (IF creates THEN KeySpace \ issued ELSE {Ulid(65)}) :
          LET r == tcp(store, message, id, ok, reachable) IN
          /\ log' = Append(log, [message |-> message, tag |-> r.tag,
                                 out |-> r.out, response |-> r.response,
                                 effects |-> r.effects,
                                 changed |-> r.store # store])
          /\ store' = r.store
          /\ issued' = IF creates THEN issued \cup {id} ELSE issued
          /\ cpc' = IF r.tag = "Panic" THEN "dead" ELSE "serving"
    /\ UNCHANGED <<created, removed, req, res, effects, prevStore, hpc, response>>
    /\ UNCHANGED <<retryVars, poolVars, syncVars, auxVars>>

\* the client goes away: `peer_addr()` or the read fails and Handler::tcp
\* returns
Disconnect ==
    /\ cpc = "serving"
    /\ cpc' = "closed"
    /\ UNCHANGED <<log, retryVars, poolVars, apiVars, syncVars, auxVars>>

NextConn == Serve \/ Disconnect

-----------------------------------------------------------------------------
(* Node::sync, Handler::tcp (lib.rs): one sync pass over the peers         *)

NumPeers == 2

\* `const PROTO_SYNC_REQ: &[u8] = &[0o0010];`
PROTO_SYNC_REQ == <<8>>

\* what a peer does when callback() tries it: "down" refuses the
\* connection; "node" runs Handler::tcp; "answers" sends a reply that
\* read_tcp_stream accepts; with "write_fails" and "read_fails" the
\* connection is established and then breaks
PeerStates == {"down", "node", "answers", "write_fails", "read_fails"}

\* Handler::tcp of the node that receives `buffer`: what it writes back,
\* "none" when it writes nothing; neither arm of its match writes
tcp_lib(buffer, mv_open_interactions) ==
    IF buffer = PROTO_SYNC_REQ THEN "none" ELSE "none"

NoHandshake ==
    [node |-> 0, peer |-> "none", allow |-> FALSE, sent |-> <<>>,
     reply |-> "none", result |-> "none"]

\* the callback Node::sync passes to with_pullback, for a peer in state
\* `peer` whose settings have mv_open_interactions = `allow`: "Err" is
\* Err(..), "Ok" is Ok(()), "Panic" is an unwrap() of an Err, "Blocked" is
\* a read that never returns
callback(node, peer, allow) ==
    LET h == [NoHandshake EXCEPT !.node = node, !.peer = peer, !.allow = allow]
    IN
    IF peer = "down" THEN [h EXCEPT !.result = "Err"]
    ELSE IF peer = "write_fails" THEN [h EXCEPT !.result = "Panic"]
    ELSE
      LET sent == [h EXCEPT !.sent = PROTO_SYNC_REQ] IN
      IF peer = "read_fails" THEN [sent EXCEPT !.result = "Panic"]
      ELSE
        LET reply == IF peer = "node" THEN tcp_lib(PROTO_SYNC_REQ, allow)
                     ELSE IF allow THEN "PROTO_SYNC_OK" ELSE "PROTO_SYNC_NA"
        IN [sent EXCEPT !.reply = reply,
                        !.result = IF reply = "none" THEN "Blocked" ELSE "Ok"]

SyncInit ==
    /\ syncPc = "start"
    /\ mv_nodes = <<>>
    /\ peerIdx = 0
    /\ failing = <<>>
    /\ okPeers = {}
    /\ hs = NoHandshake

\* Node::sync is entered on a node configured with n peers
SyncStart ==
    /\ syncPc = "start"
    /\ \E n \in 0..NumPeers :
        /\ mv_nodes' = [i \in 1..n |-> i]
        /\ syncPc' = IF n = 0 THEN "skipped" ELSE "peer"
        /\ peerIdx' = IF n = 0 THEN 0 ELSE 1
    /\ UNCHANGED <<failing, okPeers, hs>>
    /\ UNCHANGED <<retryVars, poolVars, apiVars, connVars, auxVars>>

\* with_pullback invokes the callback
SyncCallback ==
    /\ syncPc = "peer"
    /\ rpc = "call"
    /\ \E peer \in PeerStates, allow \in BOOLEAN :
        LET h == callback(mv_nodes[peerIdx], peer, allow) IN
        /\ hs' = h
        /\ okPeers' = IF h.result = "Ok" THEN okPeers \cup {h.node} ELSE okPeers
        /\ CASE h.result = "Ok" -> on_ok /\ UNCHANGED syncPc
             [] h.result = "Err" -> on_err /\ UNCHANGED syncPc
             [] h.result = "Panic" -> syncPc' = "panicked" /\ UNCHANGED retryVars
             [] h.result = "Blocked" -> syncPc' = "blocked" /\ UNCHANGED retryVars
    /\ UNCHANGED <<mv_nodes, peerIdx, failing>>
    /\ UNCHANGED <<poolVars, apiVars, connVars, auxVars>>

\* with_pullback invokes the fallback: `failing.push(node)`
SyncFallback ==
    /\ syncPc = "peer"
    /\ after_loop
    /\ failing' = Append(failing, mv_nodes[peerIdx])
    /\ UNCHANGED <<syncPc, mv_nodes, peerIdx, okPeers, hs>>
    /\ UNCHANGED <<poolVars, apiVars, connVars, auxVars>>

\* with_pullback has returned: the `for` loop takes the next peer and
\* calls with_pullback again, or ends
SyncNextPeer ==
    /\ syncPc = "peer"
    /\ rpc = "done"
    /\ IF peerIdx < Len(mv_nodes)
       THEN /\ peerIdx' = peerIdx + 1
            /\ rpc' = "loop"
            /\ iterations' = 0
            /\ calls' = 0
            /\ fallbacks' = 0
            /\ lastResult' = "none"
            /\ sleeps' = <<>>
            /\ UNCHANGED syncPc
       ELSE /\ syncPc' = "done"
            /\ UNCHANGED <<peerIdx, retryVars>>
    /\ UNCHANGED <<mv_nodes, failing, okPeers, hs>>
    /\ UNCHANGED <<poolVars, apiVars, connVars, auxVars>>

NextSync ==
    \/ SyncStart
    \/ (syncPc = "peer" /\ LoopTest)
    \/ (syncPc = "peer" /\ Sleep)
    \/ SyncCallback
    \/ SyncFallback
    \/ SyncNextPeer

-----------------------------------------------------------------------------
(* The lookup tables and the compile-time assertion on them (api.rs)       *)

\* the keys of CODE_LOOKUP_TABLE
CODE_LOOKUP_KEYS == {1, 2, 3}

\* the command codes a table of an edited program may hold
TableCodes == 0..4

\* `assert!(CODE_LOOKUP_TABLE.len() == HANDLER_LOOKUP_TABLE.len())`
tables_assert(handlers, codes) == Cardinality(codes) = Cardinality(handlers)

\* `CODE_LOOKUP_TABLE.get(code).unwrap()` in Handler::tcp
code_lookup(codes, code) == IF code \in codes THEN "found" ELSE "panic"

BuildInit ==
    /\ handlerKeys = HANDLER_LOOKUP_TABLE
    /\ codeKeys = CODE_LOOKUP_KEYS
    /\ build = "none"
    /\ lookup = "none"

\* the crate is compiled, with the tables as they are or with edited
\* tables; the assertion is evaluated at compile time
Compile ==
    /\ build = "none"
    /\ \E H \in SUBSET (TableCodes \ {0}), C \in SUBSET TableCodes :
        /\ handlerKeys' = H
        /\ codeKeys' = C
        /\ build' = IF tables_assert(H, C) THEN "ok" ELSE "rejected"
    /\ UNCHANGED lookup
    /\ UNCHANGED <<nodeVars, extractVars, frameVars>>
    /\ UNCHANGED <<retryVars, poolVars, apiVars, connVars, syncVars>>

\* Handler::tcp of a compiled program dispatches a code that has a handler
Dispatch ==
    /\ build = "ok"
    /\ \E code \in handlerKeys : lookup' = code_lookup(codeKeys, code)
    /\ UNCHANGED <<handlerKeys, codeKeys, build>>
    /\ UNCHANGED <<nodeVars, extractVars, frameVars>>
    /\ UNCHANGED <<retryVars, poolVars, apiVars, connVars, syncVars>>

NextBuild == Compile \/ Dispatch

-----------------------------------------------------------------------------
(* Node::start (node.rs): the listener, the sync thread and one thread per *)
(* accepted connection                                                     *)

MaxConns == 3

after_bind_unchecked(ok) == "spawn"

\* `TcpListener::bind(self.mv_settings.mv_addr)?`
after_bind(ok) == IF ok THEN "spawn" ELSE "failed"

spawn_joins(sPc) == sPc \in {"skipped", "done", "panicked"}

\* `std::thread::spawn(..)` returns without waiting for the thread it
\* started, whatever that thread is doing
spawn_returns(sPc) == TRUE

NodeInit ==
    /\ npc = "bind"
    /\ bound = "none"
    /\ acceptErr = FALSE
    /\ syncSpawned = FALSE
    /\ conns = <<>>

\* the sync thread is between two attempts against a peer that failed
Retrying == syncSpawned /\ syncPc = "peer" /\ lastResult = "Err"

Bind ==
    /\ npc = "bind"
    /\ \E ok \in BOOLEAN :
        /\ bound' = IF ok THEN "ok" ELSE "err"
        /\ npc' = after_bind(ok)
    /\ UNCHANGED <<acceptErr, syncSpawned, conns>>
    /\ UNCHANGED <<buildVars, extractVars, frameVars>>
    /\ UNCHANGED <<retryVars, poolVars, apiVars, connVars, syncVars>>

\* the sync thread is spawned
SpawnSync ==
    /\ npc = "spawn"
    /\ syncSpawned' = TRUE
    /\ npc' = "accept"
    /\ UNCHANGED <<bound, acceptErr, conns>>
    /\ UNCHANGED <<buildVars, extractVars, frameVars>>
    /\ UNCHANGED <<retryVars, poolVars, apiVars, connVars, syncVars>>

\* `listener.incoming()` yields a connection and a thread is spawned for
\* its Handler
Accept ==
    /\ npc = "accept"
    /\ spawn_returns(syncPc)
    /\ Len(conns) < MaxConns
    /\ conns' = Append(conns, [st |-> "serving", late |-> Retrying])
    /\ UNCHANGED <<npc, bound, acceptErr, syncSpawned>>
    /\ UNCHANGED <<buildVars, extractVars, frameVars>>
    /\ UNCHANGED <<retryVars, poolVars, apiVars, connVars, syncVars>>

accept_err_joins(cs) == \A c \in DOMAIN cs : cs[c].st # "serving"

\* the `?` returns from start at once: the join loop after the accept loop
\* is not run, the JoinHandles in `threads` are dropped with it
accept_err_returns(cs) == TRUE

\* `listener.incoming()` yields an error, or `stream.peer_addr()` fails for
\* the connection it yielded: `?` returns the error from start
AcceptErr ==
    /\ npc = "accept"
    /\ spawn_returns(syncPc)
    /\ accept_err_returns(conns)
    /\ acceptErr' = TRUE
    /\ npc' = "stopped"
    /\ UNCHANGED <<bound, syncSpawned, conns>>
    /\ UNCHANGED <<buildVars, extractVars, frameVars>>
    /\ UNCHANGED <<retryVars, poolVars, apiVars, connVars, syncVars>>

\* the Handler thread of connection c answers a request
Answer(c) ==
    /\ c \in DOMAIN conns
    /\ conns[c].st = "serving"
    /\ conns' = [conns EXCEPT ![c].st = "answered"]
    /\ UNCHANGED <<npc, bound, acceptErr, syncSpawned>>
    /\ UNCHANGED <<buildVars, extractVars, frameVars>>
    /\ UNCHANGED <<retryVars, poolVars, apiVars, connVars, syncVars>>

NextNode ==
    \/ Bind
    \/ SpawnSync
    \/ Accept
    \/ AcceptErr
    \/ \E c \in 1..MaxConns : Answer(c)
    \/ (syncSpawned /\ NextSync)

-----------------------------------------------------------------------------
(* buf_extract_targets applied to one buffer                               *)

MaxLen == 4

\* the bytes of the buffers: NUL, 'A', '@'
XBytes == {NUL, 65, AT}

Buffers == UNION {[1..n -> XBytes] : n \in 0..MaxLen}

NotCalled == <<-1>>

ExtractInit ==
    /\ xbuf = NotCalled
    /\ xout = <<>>

Extract ==
    /\ xbuf = NotCalled
    /\ \E b \in Buffers :
        /\ xbuf' = b
        /\ xout' = buf_extract_targets(b)
    /\ UNCHANGED <<buildVars, nodeVars, frameVars>>
    /\ UNCHANGED <<retryVars, poolVars, apiVars, connVars, syncVars>>

-----------------------------------------------------------------------------
(* The framing of lib.rs: write_tcp_stream, packet_size, read_tcp_stream   *)

MaxPayloadLen == 24

\* the size of a usize in bytes (64-bit targets)
USIZE_BYTES == 8

\* `let mut header = [0u8; 32];`
HEADER_LEN == 32

PLUS == 43
DIGIT_0 == 48
DIGIT_9 == 57

\* the bytes of the payloads: NUL, '1', 0xFF
PayloadBytes == {NUL, 49, 255}

\* the payloads: n times the same byte
Payloads == {[i \in 1..n |-> b] : n \in 0..MaxPayloadLen, b \in PayloadBytes}

\* usize::to_be_bytes, most significant byte first, for a usize of `count`
\* bytes
RECURSIVE be_bytes(_, _)
be_bytes(n, count) ==
    IF count = 0 THEN <<>>
    ELSE Append(be_bytes(n \div 256, count - 1), n % 256)

to_be_bytes(n) == be_bytes(n, USIZE_BYTES)

\* the bytes write_tcp_stream(payload) passes to write_all: size_be, [0],
\* payload
write_tcp_stream(payload) == to_be_bytes(Len(payload)) \o <<NUL>> \o payload

RECURSIVE trim_end_matches(_, _)
trim_end_matches(s, c) ==
    IF s # <<>> /\ s[Len(s)] = c THEN trim_end_matches(SubSeq(s, 1, Len(s) - 1), c)
    ELSE s

RECURSIVE digits_value(_, _, _)
digits_value(s, i, acc) ==
    IF i > Len(s) THEN acc ELSE digits_value(s, i + 1, acc * 10 + (s[i] - DIGIT_0))

\* str::parse::<usize>: an optional '+' and then one or more decimal digits;
\* -1 stands for Err.  Digit strings longer than 9 digits are outside the
\* integers of the model and are not drawn.
parse_usize(s) ==
    LET digits == IF s # <<>> /\ s[1] = PLUS THEN Tail(s) ELSE s IN
    IF digits = <<>> \/ Len(digits) > 9 THEN -1
    ELSE IF \E i \in DOMAIN digits : digits[i] < DIGIT_0 \/ digits[i] > DIGIT_9
    THEN -1
    ELSE digits_value(digits, 1, 0)

\* packet_size on a stream that holds `bytes`: read_exact of the header
\* blocks while the stream is open and fewer than HEADER_LEN bytes have
\* come, and is Err(UnexpectedEof) when the stream was closed before
packet_size(bytes, open) ==
    IF Len(bytes) < HEADER_LEN
    THEN [tag |-> IF open THEN "Blocked" ELSE "Err",
          kind |-> IF open THEN "none" ELSE "UnexpectedEof", size |-> 0]
    ELSE LET header == from_utf8_lossy(SubSeq(bytes, 1, HEADER_LEN))
             size == parse_usize(trim_end_matches(header, NUL))
         IN IF size = -1
            THEN [tag |-> "Err", kind |-> "InvalidData", size |-> 0]
            ELSE [tag |-> "Ok", kind |-> "none", size |-> size]

\* read_tcp_stream on a stream that holds `bytes`: `vec![0; size]` and one
\* `read`, which fills at most the first k bytes with what follows the
\* header
read_tcp_stream(bytes, open, k) ==
    LET p == packet_size(bytes, open) IN
    IF p.tag # "Ok" THEN [tag |-> p.tag, kind |-> p.kind, buffer |-> <<>>]
    ELSE LET rest == SubSeq(bytes, HEADER_LEN + 1, Len(bytes))
             avail == IF Len(rest) < p.size THEN Len(rest) ELSE p.size
             n == IF k < avail THEN k ELSE avail
         IN [tag |-> "Ok", kind |-> "none",
             buffer |-> [i \in 1..p.size |-> IF i <= n THEN rest[i] ELSE 0]]

NotRead == [tag |-> "none", kind |-> "none", buffer |-> <<>>]

FrameInit ==
    /\ fpc = "write"
    /\ fpayload = <<>>
    /\ fstream = <<>>
    /\ fopen = TRUE
    /\ fread = NotRead

\* one end calls write_tcp_stream(payload) and keeps the stream open or
\* closes it
FrameWrite ==
    /\ fpc = "write"
    /\ \E payload \in Payloads, open \in BOOLEAN :
        /\ fpayload' = payload
        /\ fstream' = write_tcp_stream(payload)
        /\ fopen' = open
    /\ fpc' = "read"
    /\ UNCHANGED fread
    /\ UNCHANGED <<buildVars, nodeVars, extractVars>>
    /\ UNCHANGED <<retryVars, poolVars, apiVars, connVars, syncVars>>

\* the other end calls read_tcp_stream
FrameRead ==
    /\ fpc = "read"
    /\ \E k \in 0..MaxPayloadLen : fread' = read_tcp_stream(fstream, fopen, k)
    /\ fpc' = "done"
    /\ UNCHANGED <<fpayload, fstream, fopen>>
    /\ UNCHANGED <<buildVars, nodeVars, extractVars>>
    /\ UNCHANGED <<retryVars, poolVars, apiVars, connVars, syncVars>>

NextFrame == FrameWrite \/ FrameRead

-----------------------------------------------------------------------------
(* Specifications                                                          *)

Init ==
    /\ RetryInit /\ PoolInit /\ ApiInit /\ ConnInit /\ SyncInit
    /\ BuildInit /\ NodeInit /\ ExtractInit /\ FrameInit

\* one call of with_pullback
SpecRetry == Init /\ [][NextRetry]_vars

\* one Pool, from Pool::new to the end of Drop
SpecPool == Init /\ [][NextPool]_vars

\* the same, with the threads scheduled fairly and every job terminating
SpecPoolFair ==
    /\ SpecPool
    /\ WF_vars(\E w \in Workers : WorkerLock(w))
    /\ \A w \in Workers : WF_vars(WorkerRecvJob(w))
    /\ \A w \in Workers : WF_vars(WorkerRecvErr(w))
    /\ \A w \in Workers : WF_vars(JobFinish(w))

\* a sequence of requests handled by one node
SpecApi == Init /\ [][NextApi]_vars

\* one connection served by Handler::tcp
SpecConn == Init /\ [][NextConn]_vars

\* one run of Node::sync
SpecSync == Init /\ [][NextSync]_vars

\* the same, with the sync thread scheduled: a step it can take (a sleep
\* that ends, a connect or a handshake that returns) is taken
SpecSyncFair == SpecSync /\ WF_vars(NextSync)

\* one build of the crate and the dispatches of the program built
SpecBuild == Init /\ [][NextBuild]_vars

\* one run of Node::start, with its sync thread and handler threads
SpecNode == Init /\ [][NextNode]_vars

\* one call of buf_extract_targets
SpecExtract == Init /\ [][Extract]_vars

\* one message written with write_tcp_stream and read with read_tcp_stream
SpecFrame == Init /\ [][NextFrame]_vars

-----------------------------------------------------------------------------
(* Properties of with_pullback, checked under SpecRetry                    *)

\* C1: when the operation succeeds on some try (after k-1 failures,
\* 1 <= k <= RETRIES), the fallback is never invoked.
C1_NoFallbackAfterSuccess == lastResult = "Ok" => fallbacks = 0

\* C2: when the operation fails on every attempt it is invoked exactly
\* RETRIES times, the fallback runs only after the last failed attempt, and
\* it runs exactly once.
C2_ExhaustedRunsFallbackOnce ==
    /\ calls <= RETRIES
    /\ fallbacks <= 1
    /\ (lastResult # "Ok" /\ rpc \in {"fallback", "done"}) => calls = RETRIES
    /\ (lastResult # "Ok" /\ fallbacks > 0) => calls = RETRIES
    /\ (lastResult # "Ok" /\ rpc = "done") => fallbacks = 1

\* every attempt failed and with_pullback has returned
C2_Witness ==
    rpc = "done" /\ lastResult = "Err" /\ calls = RETRIES /\ fallbacks = 1

-----------------------------------------------------------------------------
(* Properties of the pool, checked under SpecPool and SpecPoolFair         *)

\* the places a job occupies: slots of the channel plus workers running it
Occurrences(j) ==
    Cardinality({i \in DOMAIN queue : queue[i] = j})
    + Cardinality({w \in Workers : wjob[w] = j})

JobAccounted(j) ==
    /\ runs[j] <= 1
    /\ jstat[j] = "sent" =>
         /\ Occurrences(j) = 1
         /\ runs[j] = Cardinality({w \in Workers : wjob[w] = j})
    /\ jstat[j] = "done" => runs[j] = 1 /\ Occurrences(j) = 0
    /\ jstat[j] \in {"new", "rejected"} => runs[j] = 0 /\ Occurrences(j) = 0

\* C3: every job submitted through execute is executed exactly once, by
\* one worker: at any time it is in the channel once, or run by one worker,
\* or done after one run (never lost, never run twice), and, the threads
\* being scheduled and the jobs terminating, it ends up done.
C3_ExactlyOnce ==
    /\ [](\A j \in Jobs : JobAccounted(j))
    /\ \A j \in Jobs : (jstat[j] = "sent") ~> (jstat[j] = "done" /\ runs[j] = 1)

\* all MaxJobs jobs were submitted and each has run once
C3_Witness == \A j \in Jobs : jstat[j] = "done" /\ runs[j] = 1

\* C4: Drop closes the channel and returns only after every worker thread
\* has exited; by then every job submitted before Drop began, claimed or
\* still queued, has run to completion.
C4_DropWaits ==
    /\ dropPc # "live" => ~tx
    /\ dropPc = "dropped" =>
         /\ \A w \in Workers : wpc[w] = "exit"
         /\ queue = <<>>
         /\ \A j \in Jobs : jstat[j] # "sent"
         /\ \A j \in atDrop.queued \cup atDrop.running :
                jstat[j] = "done" /\ runs[j] = 1

\* Drop has returned, and when it began one job was running and another
\* was waiting in the channel
C4_Witness ==
    dropPc = "dropped" /\ atDrop.queued # {} /\ atDrop.running # {}

\* C5: a submission attempted after Drop has begun is an error: the job is
\* never put in the channel and no worker ever runs it.
C5_LateRejected ==
    \A j \in late : jstat[j] = "rejected" /\ runs[j] = 0 /\ Occurrences(j) = 0

\* a submission was attempted during Drop, and Drop has returned
C5_Witness == late # {} /\ dropPc = "dropped"

-----------------------------------------------------------------------------
(* Properties of the handlers, checked under SpecApi                       *)

\* C6: create of a non-empty payload P succeeds (the storage answering),
\* issues one store write and returns a 26-byte key K under which P is
\* stored; with no remove of K in between, aggregate([K]) returns K:P NUL.
C6_CreateThenAggregate ==
    /\ (req.op = "create" /\ req.payload # <<>> /\ req.redisOk) =>
         /\ res.tag = "Ok"
         /\ Len(res.out) = 26
         /\ Len(effects) = 1 /\ effects[1].op = "set"
         /\ res.out \in DOMAIN store /\ store[res.out] = req.payload
    /\ \A K \in DOMAIN created :
         (req.op = "aggregate" /\ req.list = <<K>> /\ req.redisOk) =>
             res = Ok(K \o <<58>> \o created[K] \o <<0>>)

\* aggregate([K]) answered for a key that an earlier create returned, the
\* payload holding a NUL and a colon
C6_Witness ==
    /\ req.op = "aggregate" /\ res.tag = "Ok"
    /\ \E K \in DOMAIN created : req.list = <<K>> /\ created[K] = <<104, 0, 58>>

\* C7: create with an empty payload fails with EmptyBuffer, issues no
\* store write and leaves the store unchanged.
C7_CreateEmpty ==
    (req.op = "create" /\ req.payload = <<>>) =>
        /\ res = Err("EmptyBuffer")
        /\ effects = <<>>
        /\ store = prevStore

\* create("") was refused on a node that already stores something
C7_Witness ==
    /\ req.op = "create" /\ req.payload = <<>> /\ res.err = "EmptyBuffer"
    /\ DOMAIN store # {}

\* C8: remove fails with EmptyKeys and issues no storage delete whenever
\* its payload holds no non-empty key: the empty payload and a payload of
\* NUL bytes only.
C8_RemoveWithoutKeys ==
    (req.op = "remove" /\ \A i \in DOMAIN req.payload : req.payload[i] = 0) =>
        res = Err("EmptyKeys") /\ effects = <<>>

\* C9: remove of a NUL-joined list of keys, some stored and some not,
\* succeeds (the storage answering) with an empty payload; afterwards no
\* listed key is in the store and the other keys are unchanged.
C9_RemoveMixed ==
    (/\ req.op = "remove" /\ req.redisOk
     /\ req.list # <<>> /\ \A i \in DOMAIN req.list : req.list[i] # <<>>) =>
        /\ res = Ok(<<>>)
        /\ \A i \in DOMAIN req.list : req.list[i] \notin DOMAIN store
        /\ DOMAIN store = DOMAIN prevStore \ Range(req.list)
        /\ \A k \in DOMAIN store : store[k] = prevStore[k]

\* a remove listing a stored key and a key that is not stored, while
\* another stored key is not listed
C9_Witness ==
    /\ req.op = "remove" /\ res.tag = "Ok"
    /\ \E i, j \in DOMAIN req.list :
         /\ req.list[i] \in DOMAIN prevStore
         /\ req.list[j] # <<>> /\ req.list[j] \notin DOMAIN prevStore
    /\ DOMAIN store # {}

\* the key part of a target, as aggregate computes it
key_part(target) == from_utf8_lossy(split(target, AT)[1])

\* C10: aggregate over targets of which one has a key part whose length is
\* not 26 fails with InvalidKey and returns no output bytes (here with the
\* storage answering and the remote node reachable, so that every earlier
\* target resolves).
C10_InvalidKeyAborts ==
    (/\ req.op = "aggregate" /\ req.redisOk /\ req.reachable
     /\ \E i \in DOMAIN buf_extract_targets(req.payload) :
            Len(key_part(buf_extract_targets(req.payload)[i])) # 26) =>
        res = Err("InvalidKey")

\* the request is aggregate([k1, k2@addr]) with k1 stored locally, addr the
\* address of the other node, the storage answering and the node reachable
LocalThenRemote ==
    /\ req.op = "aggregate" /\ req.redisOk /\ req.reachable
    /\ Len(req.list) = 2
    /\ req.list[1] \in DOMAIN prevStore
    /\ \E k2 \in KeySpace : req.list[2] = k2 \o <<AT>> \o RemoteAddr

\* what the node at RemoteAddr returns from its own aggregate([k2])
RemoteOutput(k2) == aggregate(RemoteStore, k2, TRUE, FALSE).res.out

C15_UnknownKey ==
    /\ removed \cap DOMAIN store = {}
    /\ \A K \in KeySpace :
         (/\ req.op = "aggregate" /\ req.list = <<K>> /\ req.redisOk
          /\ K \notin DOMAIN prevStore) =>
             res = Ok(K \o <<58>>
                        \o <<85, 110, 107, 110, 111, 119, 110, 32, 107, 101, 121>>
                        \o <<0>>)

\* aggregate([K]) answered for a key that was created and then removed
C15_Witness ==
    /\ req.op = "aggregate" /\ res.tag = "Ok"
    /\ \E K \in removed : req.list = <<K>>

\* a target names a remote node when it holds an '@'
is_remote(target) == \E i \in DOMAIN target : target[i] = AT

\* what one target adds to the output of a successful aggregate on the
\* store st
Contribution(st, target) ==
    LET key == key_part(target) IN
    IF is_remote(target) THEN <<0>> \o RemoteOutput(key)
    ELSE key \o <<58>> \o (IF key \in DOMAIN st THEN st[key] ELSE UNKNOWN_KEY)
             \o <<0>>

RECURSIVE Concat(_, _, _)
\* the contributions of targets[i..], one after the other
Concat(st, targets, i) ==
    IF i > Len(targets) THEN <<>>
    ELSE Contribution(st, targets[i]) \o Concat(st, targets, i + 1)

\* C19: aggregate takes its targets strictly in request order, one at a
\* time: call i (a storage get, or a remote call that has returned) is for
\* target i, every call before the last has succeeded, and the output of a
\* successful aggregate is the concatenation of the targets' contributions
\* in input order.
C19_InRequestOrder ==
    req.op = "aggregate" =>
        LET targets == buf_extract_targets(req.payload) IN
        /\ Len(effects) <= Len(targets)
        /\ \A i \in DOMAIN effects :
             /\ effects[i].op = IF is_remote(targets[i]) THEN "sdk" ELSE "get"
             /\ effects[i].arg[1] = key_part(targets[i])
             /\ i < Len(effects) => effects[i].ok
        /\ res.tag = "Ok" =>
             /\ Len(effects) = Len(targets)
             /\ res.out = Concat(prevStore, targets, 1)

\* a successful aggregate of a remote target followed by a stored local key
C19_Witness ==
    /\ req.op = "aggregate" /\ res.tag = "Ok"
    /\ Len(req.list) = 2
    /\ is_remote(req.list[1])
    /\ req.list[2] \in DOMAIN prevStore

\* every target of the request is well formed: not empty, with a key part
\* of 26 bytes
WellFormed(targets) ==
    \A i \in DOMAIN targets :
        targets[i] # <<>> /\ Len(key_part(targets[i])) = 26

\* C20: when the SDK call for a remote target fails, aggregate fails with
\* the Sdk error and returns no bytes, and the response written is the
\* failure response 1, 1, 0, which carries none of the values gathered.
C20_SdkFailureAborts ==
    req.op = "aggregate" =>
        LET targets == buf_extract_targets(req.payload)
            failed == \/ \E i \in DOMAIN effects :
                            effects[i].op = "sdk" /\ ~effects[i].ok
                      \/ /\ ~req.reachable /\ req.redisOk
                         /\ WellFormed(targets)
                         /\ \E i \in DOMAIN targets : is_remote(targets[i])
        IN failed =>
             /\ res = Err("Sdk")
             /\ hpc = "written" => response = <<1, 1, 0>>

\* the failure response was written for aggregate([K, k2@addr]), K stored
\* locally and the node at addr unreachable
C20_Witness ==
    /\ req.op = "aggregate" /\ hpc = "written" /\ ~req.reachable
    /\ Len(req.list) = 2
    /\ req.list[1] \in DOMAIN prevStore
    /\ is_remote(req.list[2])
    /\ res.err = "Sdk"

-----------------------------------------------------------------------------
(* Properties of the connection handler, checked under SpecConn            *)

\* C12: for every command code that has no handler, whatever the payload,
\* the response written is exactly the two bytes 1, 1, and neither a
\* storage call nor an outbound SDK call is made.
C12_UnknownCommand ==
    \A i \in DOMAIN log :
        (log[i].message # <<>> /\ log[i].message[1] \notin {1, 2, 3}) =>
            /\ log[i].response = <<1, 1>>
            /\ log[i].effects = <<>>

\* two unknown commands were answered on one connection, one of them with
\* a remote target as its payload
C12_Witness ==
    /\ Len(log) = 2
    /\ log[1].message = <<0>>
    /\ log[2].message = <<4>> \o Ulid(66) \o <<AT>> \o RemoteAddr
    /\ log[2].response = <<1, 1>>

\* the malformed requests: create with an empty payload, remove or
\* aggregate with a payload of NUL bytes only or with an empty target
Malformed(message) ==
    /\ message # <<>>
    /\ LET code == message[1]
           buffer == Tail(message)
           targets == split(buffer, NUL)
       IN \/ code = 1 /\ buffer = <<>>
          \/ /\ code \in {2, 3}
             /\ \/ \A i \in DOMAIN buffer : buffer[i] = NUL
                \/ \E i \in 1..(Len(targets) - 1) : targets[i] = <<>>

\* C13: no malformed request terminates its connection: the thread that
\* runs the handler stays alive, a response whose first byte is the
\* failure status is written, and the loop goes on.
C13_MalformedKeepsConnection ==
    /\ cpc # "dead"
    /\ \A i \in DOMAIN log :
         Malformed(log[i].message) =>
             log[i].response # <<>> /\ log[i].response[1] = 1

\* C14: when a handler returns an error the response starts with the
\* failure code of CODE_LOOKUP_TABLE (it is 1, 1, 0), the handler thread
\* goes on serving the connection, and the next message read on it is
\* dispatched as any other.
C14_ErrorKeepsConnection ==
    /\ \A i \in DOMAIN log :
         log[i].tag = "Err" =>
             /\ log[i].response = <<1, 1, 0>>
             /\ i = Len(log) => cpc # "dead"
    /\ (/\ cpc = "serving" /\ Len(log) \in 1..(MaxRequests - 1)
        /\ log[Len(log)].tag = "Err") => ENABLED Serve

\* on one connection a request failed and the request after it succeeded
C14_Witness ==
    /\ Len(log) = 2
    /\ log[1].tag = "Err" /\ log[1].response[1] = 1
    /\ log[2].tag = "Ok" /\ log[2].response[1] = 0

\* C22: an empty message read from the connection is ignored: no handler
\* is invoked, nothing is written, no storage or SDK call is made, the
\* store is unchanged, and the loop goes on with the next read.
C22_EmptyMessageIgnored ==
    /\ \A i \in DOMAIN log :
         log[i].message = <<>> =>
             /\ log[i].tag = "Ignored"
             /\ log[i].response = <<>>
             /\ log[i].effects = <<>>
             /\ ~log[i].changed
             /\ i = Len(log) => cpc # "dead"
    /\ (/\ cpc = "serving" /\ Len(log) \in 1..(MaxRequests - 1)
        /\ log[Len(log)].message = <<>>) => ENABLED Serve

\* an empty message was read on a node that stores something, and the
\* message after it was answered
C22_Witness ==
    /\ Len(log) = 2
    /\ log[1].message = <<>>
    /\ log[2].tag = "Ok" /\ log[2].response # <<>>

\* C27: on a connection every non-empty request gets exactly one response
\* before the next request is read; for a code with a handler it is the
\* success code followed by the result when the handler returned Ok, and it
\* starts with the failure code when the handler returned Err; the responses
\* are in the order of the requests.
C27_OneResponsePerRequest ==
    \A i \in DOMAIN log :
        log[i].message # <<>> =>
            /\ log[i].response # <<>>
            /\ (log[i].message[1] \in {1, 2, 3} /\ log[i].tag = "Ok") =>
                   log[i].response = <<0>> \o log[i].out
            /\ (log[i].message[1] \in {1, 2, 3} /\ log[i].tag = "Err") =>
                   log[i].response[1] = 1

\* C30: aggregate appends the whole reply of the remote node, status byte
\* included, without looking at it: when the SDK call returns, the local
\* aggregate succeeds and the response starts with the success code, also
\* when the reply is the remote node's failure response 1, 1, 0.
C30_RemoteReplyNotInspected ==
    \A i \in DOMAIN log :
        LET m == log[i].message IN
        (/\ m # <<>> /\ m[1] = 3
         /\ Len(log[i].effects) = 1
         /\ log[i].effects[1].op = "sdk" /\ log[i].effects[1].ok) =>
            /\ log[i].tag = "Ok"
            /\ log[i].response[1] = 0
            /\ m = <<3>> \o Ulid(66) \o <<AT>> \o FailingAddr =>
                   log[i].response = <<0, 1, 1, 0>>
            /\ m = <<3>> \o Ulid(66) \o <<AT>> \o RemoteAddr =>
                   log[i].response =
                       <<0, 0>> \o Ulid(66) \o <<58, 104, 105, 0>>

\* an aggregate of a key at the node whose storage fails was answered
C30_Witness ==
    \E i \in DOMAIN log :
        /\ log[i].message = <<3>> \o Ulid(66) \o <<AT>> \o FailingAddr
        /\ log[i].tag = "Ok"

-----------------------------------------------------------------------------
(* Properties of the sync pass, checked under SpecSync                     *)

\* C16: a node that receives PROTO_SYNC_REQ replies PROTO_SYNC_OK when its
\* settings allow interactions and PROTO_SYNC_NA when they do not, so that
\* the read of the requesting side completes.
C16_SyncHandshake ==
    hs.peer = "node" =>
        /\ hs.sent = PROTO_SYNC_REQ
        /\ hs.reply = IF hs.allow THEN "PROTO_SYNC_OK" ELSE "PROTO_SYNC_NA"
        /\ hs.result = "Ok"
        /\ syncPc # "blocked"

\* C17: when a sync pass has ended, the peers recorded as unavailable are
\* exactly those for which all RETRIES attempts failed: a peer for which a
\* handshake succeeded is not recorded, and every other peer is recorded
\* once.
C17_FailingIsExhausted ==
    syncPc = "done" =>
        \A p \in Range(mv_nodes) :
            Cardinality({i \in DOMAIN failing : failing[i] = p})
                = IF p \in okPeers THEN 0 ELSE 1

\* C18: an I/O failure in reaching a peer (the connect fails, or the write
\* of the request or the read of the reply fails on an established
\* connection) counts as one failed attempt, which with_pullback retries,
\* and never ends the sync thread.
C18_IoFailureIsFailedAttempt ==
    /\ syncPc # "panicked"
    /\ hs.peer \in {"down", "write_fails", "read_fails"} =>
         hs.result = "Err"

-----------------------------------------------------------------------------
(* The lock of the job queue, checked under SpecPool                       *)

\* C29: a worker holds the lock of the shared queue only while it receives
\* a job and has released it before it runs the job, so a running job never
\* keeps an idle worker from taking the lock for the next queued job; with
\* N workers and at least N jobs, N jobs run at the same time.
C29_LockOnlyWhileReceiving ==
    /\ \A w \in Workers : lock = w => wpc[w] = "recv"
    /\ \A w \in Workers : wpc[w] = "job" => lock # w
    /\ \A v \in Workers :
         (wpc[v] = "lock" /\ \A u \in Workers : wpc[u] # "recv") =>
             ENABLED WorkerLock(v)

\* every worker is running a job
C29_Witness ==
    /\ \A w \in Workers : wpc[w] = "job"
    /\ Cardinality({wjob[w] : w \in Workers}) = NumWorkers

-----------------------------------------------------------------------------
(* Backoff of with_pullback, checked under SpecRetry                       *)

\* C28: before the i-th invocation of the operation, counted from 0, the
\* helper sleeps exactly i * SLEEP seconds: 0 seconds before the first and,
\* with RETRIES = 20 and SLEEP = 2, 38 seconds before the last; there is one
\* sleep per invocation and none after an invocation that succeeded.
C28_LinearBackoff ==
    /\ \A k \in DOMAIN sleeps : sleeps[k] = (k - 1) * SLEEP
    /\ Len(sleeps) = IF rpc = "call" THEN calls + 1 ELSE calls
    /\ Len(sleeps) <= RETRIES
    /\ Len(sleeps) >= 1 => sleeps[1] = 0
    /\ Len(sleeps) = RETRIES => sleeps[RETRIES] = 38
    /\ lastResult = "Ok" => (rpc \in {"fallback", "done"} /\ Len(sleeps) = calls)

\* the last of the RETRIES attempts was made, after a sleep of 38 seconds
C28_Witness ==
    /\ calls = RETRIES
    /\ Len(sleeps) = RETRIES
    /\ sleeps[RETRIES] = 38

-----------------------------------------------------------------------------
(* Properties of the lookup tables, checked under SpecBuild                *)

\* C21: the keys of the handler table are the keys of the response-code
\* table minus the sentinel 0, so the response-code lookup at dispatch
\* succeeds for every code that has a handler; a program whose two key sets
\* do not match in this way is rejected when it is built.
C21_TablesConsistent ==
    /\ HANDLER_LOOKUP_TABLE = CODE_LOOKUP_KEYS \ {0}
    /\ build = "ok" => handlerKeys = codeKeys \ {0}
    /\ lookup # "panic"

-----------------------------------------------------------------------------
(* Properties of Node::start, checked under SpecNode                       *)

\* the connections whose Handler thread is serving a request
Executing == {c \in DOMAIN conns : conns[c].st = "serving"}

\* C23: at most N connection handlers execute at a time, N being the size
\* of the pool: the accept loop hands each accepted connection to the pool
\* as one job, and a connection accepted while all workers are busy waits.
C23_AtMostPoolSizeHandlers == Cardinality(Executing) <= NumWorkers

\* C24: a peer that cannot be reached does not hold up local serving: the
\* accept loop never waits for the sync thread, so whatever the sync thread
\* is doing the next connection can be accepted and every connection that
\* is being served can be answered.
C24_ServingIndependentOfSync ==
    /\ (npc = "accept" /\ Len(conns) < MaxConns) => ENABLED Accept
    /\ \A c \in 1..MaxConns :
         (c \in DOMAIN conns /\ conns[c].st = "serving") => ENABLED Answer(c)

\* a connection accepted while the sync thread was between two failed
\* attempts has been answered, and the sync thread is still retrying
C24_Witness ==
    /\ Retrying
    /\ \E c \in DOMAIN conns : conns[c].late /\ conns[c].st = "answered"

\* C25: when the listening address cannot be bound, start returns the error
\* at once: the sync thread is not spawned and no connection is accepted.
C25_BindFailureStopsStart ==
    bound = "err" => (npc = "failed" /\ ~syncSpawned /\ conns = <<>>)

\* the bind failed and start has returned
C25_Witness == bound = "err" /\ npc = "failed"

-----------------------------------------------------------------------------
(* Properties of buf_extract_targets, checked under SpecExtract            *)

\* the NUL-separated segments of a buffer, an empty segment after the last
\* NUL (or the only segment of an empty buffer) not counted
Segments(b) ==
    LET parts == split(b, NUL) IN
    IF parts[Len(parts)] = <<>> THEN SubSeq(parts, 1, Len(parts) - 1)
    ELSE parts

HasNoNul(b) == \A i \in DOMAIN b : b[i] # NUL

-----------------------------------------------------------------------------
(* Termination of the sync pass, checked under SpecSyncFair                *)

\* the callback is invoked for the current peer, at most RETRIES times
OneMoreCall ==
    calls' > calls => (calls' = calls + 1 /\ calls' <= RETRIES /\ peerIdx' = peerIdx)

\* the pass moves to the next peer of the configuration only when the retry
\* sequence of the current peer is over
NextPeerInOrder ==
    (peerIdx # 0 /\ peerIdx' # peerIdx) =>
        (rpc = "done" /\ peerIdx' = peerIdx + 1 /\ peerIdx' <= Len(mv_nodes))

\* the end of the pass: "Node is now in sync", or "Syncing skipped" when no
\* peer is configured
PassEnded == syncPc \in {"done", "skipped"}

\* C31: a sync pass terminates: when every connection attempt and every
\* handshake returns, with success or failure (no read stays blocked), the
\* operation is invoked at most RETRIES times for each peer, hence at most
\* |peers| x RETRIES times in all, the peers are visited in configuration
\* order, one retry sequence ending before the next starts, and the pass
\* reaches its end.
C31_SyncPassTerminates ==
    /\ [][OneMoreCall /\ NextPeerInOrder]_vars
    /\ [](syncPc # "blocked") => <>PassEnded

-----------------------------------------------------------------------------
(* Failure of an accept, checked under SpecNode                            *)

\* C32: a failure while accepting one connection (the accept itself or the
\* reading of the peer address) ends the accept loop: start returns the
\* error at once, whatever the handler threads are doing and without joining
\* them, and no connection is accepted afterwards.
C32_AcceptFailureEndsLoop ==
    /\ npc = "accept" => ENABLED AcceptErr
    /\ acceptErr => (npc = "stopped" /\ ~ENABLED Accept /\ ~ENABLED AcceptErr)
    /\ npc = "stopped" => acceptErr

\* start has returned the error of an accept while a handler thread it
\* spawned is still serving its connection and more clients could connect
C32_Witness ==
    /\ acceptErr /\ npc = "stopped"
    /\ Len(conns) \in 1..(MaxConns - 1)
    /\ \E c \in DOMAIN conns : conns[c].st = "serving"

-----------------------------------------------------------------------------
(* The framing round trip, checked under SpecFrame                         *)

\* C33: round trip of the length-prefixed framing of lib.rs: for every
\* payload, read_tcp_stream applied to the bytes that write_tcp_stream put
\* on the stream returns exactly the payload (the header the writer wrote
\* is the header packet_size parses).
C33_FramingRoundTrip ==
    fpc = "done" => (fread.tag = "Ok" /\ fread.buffer = fpayload)

=============================================================================
